---------------------------- MODULE Spec2Model ----------------------------
(***************************************************************************)
(* A model of advance_qr_generator.py: the numeric-range payload list      *)
(* (get_qr_data), the centimetre-to-pixel conversion (cm_to_pixels), the   *)
(* raster (PNG) grid and the paginated (PDF) layout and drawing loop of    *)
(* main.                                                                   *)
(*                                                                         *)
(* Lengths.  Every physical length is an integer number of hundredths of   *)
(* a centimetre (0.1 mm): 21.0 cm is 2100.  The lengths the PDF path is    *)
(* run on are whole millimetres, so that the halving of lines 230-231 is   *)
(* exact.  The Python floats are modelled as exact numbers.                *)
(*                                                                         *)
(* Strings.  A string of decimal digits is a sequence of numbers 0..9.     *)
(***************************************************************************)
EXTENDS Integers, Sequences, FiniteSets, TLC

VARIABLES
    pc,                 \* position of the program
    choice,             \* get_qr_data: the menu choice, 1 or 2 (0: none yet)
    start_str,          \* get_qr_data: the starting number as typed
    end_str,            \* get_qr_data: the ending number as typed
    qr_data_list,       \* get_qr_data: the list returned
    cm_value,           \* cm_to_pixels: the argument
    pixels,             \* cm_to_pixels: the value returned
    qr_width_cm,        \* main: tile width
    qr_height_cm,       \* main: tile height
    qr_images,          \* main: the rendered tiles, each its pixel size <<w, h>>
    qrs_per_row,        \* main: tiles per row (PNG), columns of the grid (PDF)
    rows,               \* main: rows of the PNG canvas / of the fixed-count grid
    cols,               \* main: columns of the fixed-count grid
    final_size,         \* main (PNG): <<final_width, final_height>>
    pasted,             \* main (PNG): the paste positions <<x_pos, y_pos>>, in order
    page_size_name,     \* main (PDF): the page size chosen
    mode,               \* main (PDF): "max", "fixed" or "invalid" (qr_count_choice)
    num_qrs,            \* main (PDF): the count typed in fixed-count mode
    row_spacing_cm,     \* main (PDF)
    col_spacing_cm,     \* main (PDF)
    qrs_per_col,        \* main (PDF): rows of the grid
    qrs_to_place_on_page,  \* main (PDF): the per-page capacity
    error,              \* main: the message the run ended with, "none" if none
    current_qr_index,   \* main (PDF): index of the next tile
    qrs_on_this_page,   \* main (PDF)
    row,                \* main (PDF): the for-row loop variable
    col,                \* main (PDF): the for-col loop variable
    x_pos,              \* main (PDF)
    y_pos,              \* main (PDF)
    page,               \* main (PDF): pages ended by showPage so far
    drawn,              \* main (PDF): the drawImage calls made, in order
    temp_files          \* main (PDF): the indices i whose temp_qr_<i>.png exists

rangeVars == <<choice, start_str, end_str, qr_data_list>>
pxVars == <<cm_value, pixels>>
tileVars == <<qr_width_cm, qr_height_cm, qr_images>>
pngVars == <<final_size, pasted>>
gridVars == <<qrs_per_row, rows, cols>>
pdfInVars == <<page_size_name, mode, num_qrs, row_spacing_cm, col_spacing_cm>>
pdfGridVars == <<qrs_per_col, qrs_to_place_on_page>>
loopVars == <<current_qr_index, qrs_on_this_page, row, col, x_pos, y_pos, page>>
outVars == <<drawn, temp_files>>
vars == <<pc, error, rangeVars, pxVars, tileVars, pngVars, gridVars, pdfInVars,
          pdfGridVars, loopVars, outVars>>

---------------------------------------------------------------------------
(* Bounds of the model. *)

MaxDigits == 2      \* digits of a range bound as typed
MaxSpan == 12       \* largest distance between the two range bounds tried
MaxCmValue == 1500  \* largest length given to cm_to_pixels, in 0.01 cm
MaxQrs == 5         \* largest number of tiles
MaxPerRow == 3      \* largest tiles-per-row typed in the PNG path
MaxNumQrs == 10     \* largest count typed in fixed-count mode
MaxPages == 6       \* pages after which the model stops following showPage
MaxCount == 20      \* a largest count is sought among -MaxCount..MaxCount

Max(a, b) == IF a >= b THEN a ELSE b

---------------------------------------------------------------------------
(* Program constants. *)

DPI == 300

\* 2.54 cm per inch, times 100
CmPerInch100 == 254

\* page width and height of PAGE_SIZES, in 0.01 cm
PAGE_SIZES ==
    [A1 |-> <<5940, 8410>>, A2 |-> <<4200, 5940>>, A3 |-> <<2970, 4200>>,
     A4 |-> <<2100, 2970>>, A5 |-> <<1480, 2100>>]

margin_cm == 100

\* the padding added to a captioned tile's height
CaptionPadding == 15

---------------------------------------------------------------------------
(* cm_to_pixels *)

\* int() of a float cuts towards zero
IntTrunc(num, den) ==
    IF num >= 0 THEN num \div den ELSE -((-num) \div den)

cm_to_pixels_nearest(c) == (2 * c * DPI + CmPerInch100) \div (2 * CmPerInch100)

\* int(cm_value * DPI / 2.54), cm_value in 0.01 cm
cm_to_pixels(c) == IntTrunc(c * DPI, CmPerInch100)

\* the variables of a part of the program that a specification does not run
RangeIdle ==
    choice = 0 /\ start_str = <<>> /\ end_str = <<>> /\ qr_data_list = <<>>

PixelsIdle == cm_value = 0 /\ pixels = 0

TilesIdle == qr_width_cm = 0 /\ qr_height_cm = 0 /\ qr_images = <<>>

PngIdle == final_size = <<0, 0>> /\ pasted = <<>>

PdfIdle ==
    /\ page_size_name = "A4" /\ mode = "max" /\ num_qrs = 0
    /\ row_spacing_cm = 0 /\ col_spacing_cm = 0
    /\ qrs_per_col = 0 /\ qrs_to_place_on_page = 0
    /\ current_qr_index = 0 /\ qrs_on_this_page = 0 /\ row = 0 /\ col = 0
    /\ x_pos = 0 /\ y_pos = 0 /\ page = 0
    /\ drawn = <<>> /\ temp_files = {}

GridIdle == qrs_per_row = 0 /\ rows = 0 /\ cols = 0

InitPixels ==
    /\ pc = "call"
    /\ cm_value \in 1..MaxCmValue
    /\ pixels = 0
    /\ error = "none"
    /\ RangeIdle /\ TilesIdle /\ PngIdle /\ GridIdle /\ PdfIdle

CallCmToPixels ==
    /\ pc = "call"
    /\ pixels' = cm_to_pixels(cm_value)
    /\ pc' = "returned"
    /\ UNCHANGED <<cm_value, error, rangeVars, tileVars, pngVars, gridVars,
                   pdfInVars, pdfGridVars, loopVars, outVars>>

NextPixels == CallCmToPixels

SpecPixels == InitPixels /\ [][NextPixels]_vars

\* C8 as stated: cm_to_pixels(c) is c*300/2.54 rounded to the nearest integer,
\* that is, it differs from c*300/2.54 by at most one half.
C8_RoundsToNearest ==
    pc = "returned" =>
        /\ 2 * (pixels * CmPerInch100 - cm_value * DPI) <= CmPerInch100
        /\ 2 * (cm_value * DPI - pixels * CmPerInch100) <= CmPerInch100

\* C8 amended: cm_to_pixels(c) is c*300/2.54 cut down to an integer: the
\* largest integer p with p*2.54 <= c*300.
C8_Truncates ==
    pc = "returned" =>
        /\ pixels * CmPerInch100 <= cm_value * DPI
        /\ (pixels + 1) * CmPerInch100 > cm_value * DPI

\* 0.70 cm is 82.68 pixels: cut to 82
C8_Witness == pc = "returned" /\ cm_value = 70 /\ pixels = 82

---------------------------------------------------------------------------
(* get_qr_data *)

Digits == 0..9

\* the strings of 1 to n decimal digits
DigitStrings(n) == UNION {[1..k -> Digits] : k \in 1..n}

RECURSIVE int(_)
\* int(s) of a string of decimal digits
int(s) ==
    IF s = <<>> THEN 0
    ELSE 10 * int(SubSeq(s, 1, Len(s) - 1)) + s[Len(s)]

RECURSIVE str(_)
\* str(i) of an integer i >= 0
str(i) == IF i < 10 THEN <<i>> ELSE str(i \div 10) \o <<i % 10>>

\* s.zfill(width) of a string of digits: zeros are put in front up to width
zfill(s, width) ==
    IF Len(s) >= width THEN s ELSE [k \in 1..(width - Len(s)) |-> 0] \o s

RangeList_exclusive(start_num, end_num, padding) ==
    [k \in 1..(end_num - start_num) |-> zfill(str(start_num + k - 1), padding)]

\* [str(i).zfill(padding) for i in range(start_num, end_num + 1)]
RangeList(start_num, end_num, padding) ==
    [k \in 1..(end_num + 1 - start_num) |-> zfill(str(start_num + k - 1), padding)]

\* the texts typed under choice 1
Texts == {<<>>, <<7>>, <<4, 2>>}

InitRange ==
    /\ pc = "menu"
    /\ error = "none"
    /\ RangeIdle /\ PixelsIdle /\ TilesIdle /\ PngIdle /\ GridIdle /\ PdfIdle

\* choice 1: a single link or text
GetSingle ==
    /\ pc = "menu"
    /\ \E data \in Texts :
        /\ choice' = 1
        /\ qr_data_list' = <<data>>
        /\ start_str' = <<>>
        /\ end_str' = <<>>
    /\ error' = "none"
    /\ pc' = "returned"
    /\ UNCHANGED <<pxVars, tileVars, pngVars, gridVars, pdfInVars, pdfGridVars,
                   loopVars, outVars>>

\* choice 2: a range of numbers; a start above the end leads back to the menu,
\* where nothing of the attempt is kept
GetRange ==
    /\ pc = "menu"
    /\ \E s \in DigitStrings(MaxDigits) :
        \E e \in {t \in DigitStrings(MaxDigits) :
                    /\ int(t) <= int(s) + MaxSpan
                    /\ int(s) <= int(t) + MaxSpan} :
            LET padding == Len(s)
                start_num == int(s)
                end_num == int(e)
            IN  /\ choice' = 2
                /\ IF start_num > end_num
                   THEN /\ error' = "StartAboveEnd"
                        /\ start_str' = <<>>
                        /\ end_str' = <<>>
                        /\ qr_data_list' = <<>>
                        /\ pc' = "menu"
                   ELSE /\ error' = "none"
                        /\ start_str' = s
                        /\ end_str' = e
                        /\ qr_data_list' = RangeList(start_num, end_num, padding)
                        /\ pc' = "returned"
    /\ UNCHANGED <<pxVars, tileVars, pngVars, gridVars, pdfInVars, pdfGridVars,
                   loopVars, outVars>>

NextRange == GetSingle \/ GetRange

SpecRange == InitRange /\ [][NextRange]_vars

\* the number of decimal digits of i >= 0
NumDigits(i) ==
    CHOOSE d \in 1..(MaxDigits + 2) :
        /\ i < 10 ^ d
        /\ d > 1 => i >= 10 ^ (d - 1)

\* C9: for all-digit bounds with int(start) <= int(end) and p = len(start_str),
\* get_qr_data returns end-start+1 strings of digits, the i-th denoting start+i
\* and as long as p, or as the number's own decimal form when that is longer:
\* the decimal form left-padded with zeros to width p, in increasing order.
C9_RangeList ==
    (pc = "returned" /\ choice = 2) =>
        LET start_num == int(start_str)
            end_num == int(end_str)
            p == Len(start_str)
        IN  /\ start_num <= end_num
            /\ Len(qr_data_list) = end_num - start_num + 1
            /\ \A i \in 1..Len(qr_data_list) :
                /\ \A k \in 1..Len(qr_data_list[i]) : qr_data_list[i][k] \in Digits
                /\ int(qr_data_list[i]) = start_num + i - 1
                /\ Len(qr_data_list[i]) = Max(p, NumDigits(start_num + i - 1))

\* "08" to "11" gives "08", "09", "10", "11"
C9_Witness ==
    /\ pc = "returned" /\ choice = 2
    /\ start_str = <<0, 8>> /\ end_str = <<1, 1>>
    /\ qr_data_list = << <<0, 8>>, <<0, 9>>, <<1, 0>>, <<1, 1>> >>

---------------------------------------------------------------------------
(* main: the tiles *)

\* the tile widths and heights typed, in 0.01 cm (whole millimetres)
TileSizesCm == {200, 350}

\* the heights the caption font measures for a text, in pixels
TextHeights == {31}

\* the size of the image generate_qr_image returns
generate_qr_image(qr_width_px, qr_height_px, include_text, text_height) ==
    IF ~include_text
    THEN <<qr_width_px, qr_height_px>>
    ELSE <<qr_width_px, qr_height_px + text_height + CaptionPadding>>

---------------------------------------------------------------------------
(* main: the PNG path *)

RasterRows_floor(total_qrs, per_row) == total_qrs \div per_row

\* rows = (total_qrs + qrs_per_row - 1) // qrs_per_row
RasterRows(total_qrs, per_row) == (total_qrs + per_row - 1) \div per_row

InitPng ==
    /\ pc = "png_settings"
    /\ error = "none"
    /\ qr_width_cm \in TileSizesCm
    /\ qr_height_cm \in TileSizesCm
    /\ \E n \in 1..MaxQrs, include_text \in BOOLEAN, text_height \in TextHeights :
        qr_images = [i \in 1..n |->
                        generate_qr_image(cm_to_pixels(qr_width_cm),
                                          cm_to_pixels(qr_height_cm),
                                          include_text, text_height)]
    /\ RangeIdle /\ PixelsIdle /\ PngIdle /\ GridIdle /\ PdfIdle

\* lines 128-141: the number typed is an integer
PngSettings ==
    /\ pc = "png_settings"
    /\ \E typed \in -1..MaxPerRow :
        LET total_qrs == Len(qr_images)
            single_qr_w == qr_images[1][1]
            single_qr_h == qr_images[1][2]
        IN  /\ qrs_per_row' = typed
            /\ IF typed <= 0
               THEN /\ error' = "MustBePositive"
                    /\ pc' = "exit"
                    /\ UNCHANGED <<rows, final_size>>
               ELSE /\ rows' = RasterRows(total_qrs, typed)
                    /\ final_size' = <<single_qr_w * typed, single_qr_h * rows'>>
                    /\ error' = "none"
                    /\ pc' = "paste"
    /\ UNCHANGED <<cols, pasted, rangeVars, pxVars, tileVars, pdfInVars,
                   pdfGridVars, loopVars, outVars>>

\* lines 153-155: the number typed is no integer
PngBadNumber ==
    /\ pc = "png_settings"
    /\ error' = "InvalidNumber"
    /\ pc' = "exit"
    /\ UNCHANGED <<rangeVars, pxVars, tileVars, pngVars, gridVars, pdfInVars,
                   pdfGridVars, loopVars, outVars>>

\* lines 143-148: one pass of the paste loop, i the number of tiles pasted
PngPaste ==
    /\ pc = "paste"
    /\ Len(pasted) < Len(qr_images)
    /\ LET i == Len(pasted)
           single_qr_w == qr_images[1][1]
           single_qr_h == qr_images[1][2]
           row_idx == i \div qrs_per_row
           col_idx == i % qrs_per_row
       IN  pasted' = Append(pasted, <<col_idx * single_qr_w, row_idx * single_qr_h>>)
    /\ UNCHANGED <<pc, error, final_size, rangeVars, pxVars, tileVars, gridVars,
                   pdfInVars, pdfGridVars, loopVars, outVars>>

\* lines 150-151
PngSave ==
    /\ pc = "paste"
    /\ Len(pasted) = Len(qr_images)
    /\ pc' = "done"
    /\ UNCHANGED <<error, rangeVars, pxVars, tileVars, pngVars, gridVars,
                   pdfInVars, pdfGridVars, loopVars, outVars>>

NextPng == PngSettings \/ PngBadNumber \/ PngPaste \/ PngSave

SpecPng == InitPng /\ [][NextPng]_vars

\* C7: for N >= 1 tiles of pixel size (tile_w, tile_h) and k > 0 tiles per row
\* the canvas is k*tile_w wide and ceil(N/k)*tile_h high (ceil(N/k) the least r
\* with r*k >= N), and tile i, i = 0..N-1, is pasted at
\* ((i mod k)*tile_w, floor(i/k)*tile_h); when the file is saved all N are.
C7_RasterLayout ==
    (pc \in {"paste", "done"}) =>
        LET N == Len(qr_images)
            k == qrs_per_row
            tile_w == qr_images[1][1]
            tile_h == qr_images[1][2]
            r == final_size[2] \div tile_h
        IN  /\ k > 0
            /\ final_size[1] = k * tile_w
            /\ final_size[2] = r * tile_h
            /\ r * k >= N
            /\ (r - 1) * k < N
            /\ Len(pasted) <= N
            /\ pc = "done" => Len(pasted) = N
            /\ \A i \in 0..(Len(pasted) - 1) :
                pasted[i + 1] = <<(i % k) * tile_w, (i \div k) * tile_h>>

\* five tiles, two per row: the last is alone in the third row
C7_Witness ==
    /\ pc = "done"
    /\ Len(qr_images) = 5 /\ qrs_per_row = 2 /\ rows = 3
    /\ pasted[5] = <<0, 2 * qr_images[1][2]>>
    /\ final_size = <<2 * qr_images[1][1], 3 * qr_images[1][2]>>

---------------------------------------------------------------------------
(* main: the PDF path, the layout (lines 157-231) *)

\* the page sizes, tile sizes and spacings typed, in 0.01 cm (whole millimetres)
PdfPages == {"A4", "A5"}

PdfTileSizesCm == {500, 900, 1400, 2100}

SpacingsCm == {-2000, -1300, 0, 50, 100}

page_width_cm == PAGE_SIZES[page_size_name][1]

page_height_cm == PAGE_SIZES[page_size_name][2]

drawable_width_cm == page_width_cm - (2 * margin_cm)

drawable_height_cm == page_height_cm - (2 * margin_cm)

MaxFitCount_nospacing(drawable, spacing, eff) == drawable \div eff

\* int((drawable + spacing) // eff): // is the floor of the quotient
MaxFitCount(drawable, spacing, eff) == (drawable + spacing) \div eff

RECURSIVE SqrtFrom(_, _)
SqrtFrom(n, r) == IF (r + 1) * (r + 1) > n THEN r ELSE SqrtFrom(n, r + 1)

\* int(math.sqrt(n))
IntSqrt(n) == SqrtFrom(n, 0)

\* math.ceil(a / b), a >= 0 and b > 0
Ceil(a, b) == (a + b - 1) \div b

GridExtent_nogap(count, size, spacing) == count * size

\* (count * size) + (max(0, count - 1) * spacing)
GridExtent(count, size, spacing) ==
    (count * size) + (Max(0, count - 1) * spacing)

grid_w == GridExtent(qrs_per_row, qr_width_cm, col_spacing_cm)

grid_h == GridExtent(qrs_per_col, qr_height_cm, row_spacing_cm)

x_start == (page_width_cm - grid_w) \div 2

y_start == page_height_cm - (page_height_cm - grid_h) \div 2

InitPdf ==
    /\ pc = "pdf_settings"
    /\ error = "none"
    /\ qr_width_cm \in PdfTileSizesCm
    /\ qr_height_cm \in PdfTileSizesCm
    /\ \E n \in 1..MaxQrs :
        qr_images = [i \in 1..n |->
                        generate_qr_image(cm_to_pixels(qr_width_cm),
                                          cm_to_pixels(qr_height_cm), FALSE, 0)]
    /\ RangeIdle /\ PixelsIdle /\ PngIdle /\ GridIdle /\ PdfIdle

\* lines 174-176: a spacing typed is no number
PdfBadSpacing ==
    /\ pc = "pdf_settings"
    /\ \E name \in PdfPages : page_size_name' = name
    /\ error' = "InvalidSpacing"
    /\ pc' = "exit"
    /\ UNCHANGED <<mode, num_qrs, row_spacing_cm, col_spacing_cm, rangeVars,
                   pxVars, tileVars, pngVars, gridVars, pdfGridVars, loopVars,
                   outVars>>

\* lines 184-195: 'max' was typed
PdfSettingsMax ==
    /\ pc = "pdf_settings"
    /\ \E name \in PdfPages, rs \in SpacingsCm, cs \in SpacingsCm :
        LET eff_qr_width == qr_width_cm + cs
            eff_qr_height == qr_height_cm + rs
            dw == PAGE_SIZES[name][1] - (2 * margin_cm)
            dh == PAGE_SIZES[name][2] - (2 * margin_cm)
        IN  /\ page_size_name' = name
            /\ mode' = "max"
            /\ row_spacing_cm' = rs
            /\ col_spacing_cm' = cs
            /\ IF eff_qr_width <= 0 \/ eff_qr_height <= 0
               THEN /\ error' = "NonPositiveEff"
                    /\ pc' = "exit"
                    /\ UNCHANGED <<qrs_per_row, qrs_per_col, qrs_to_place_on_page>>
               ELSE /\ qrs_per_row' = MaxFitCount(dw, cs, eff_qr_width)
                    /\ qrs_per_col' = MaxFitCount(dh, rs, eff_qr_height)
                    /\ IF qrs_per_row' = 0 \/ qrs_per_col' = 0
                       THEN /\ error' = "TooLarge"
                            /\ pc' = "exit"
                            /\ UNCHANGED qrs_to_place_on_page
                       ELSE /\ error' = "none"
                            /\ pc' = "while"
                            /\ qrs_to_place_on_page' = qrs_per_row' * qrs_per_col'
    /\ UNCHANGED <<num_qrs, rows, cols, rangeVars, pxVars, tileVars, pngVars,
                   loopVars, outVars>>

\* lines 196-215: an integer was typed
PdfSettingsFixed ==
    /\ pc = "pdf_settings"
    /\ \E name \in PdfPages, rs \in SpacingsCm, cs \in SpacingsCm,
          typed \in 0..MaxNumQrs :
        LET dw == PAGE_SIZES[name][1] - (2 * margin_cm)
            dh == PAGE_SIZES[name][2] - (2 * margin_cm)
        IN  /\ page_size_name' = name
            /\ mode' = "fixed"
            /\ num_qrs' = typed
            /\ row_spacing_cm' = rs
            /\ col_spacing_cm' = cs
            /\ IF typed <= 0
               THEN /\ error' = "NonPositiveCount"
                    /\ pc' = "exit"
                    /\ UNCHANGED <<rows, cols, qrs_per_row, qrs_per_col,
                                   qrs_to_place_on_page>>
               ELSE /\ rows' = IntSqrt(typed)
                    /\ cols' = Ceil(typed, rows')
                    /\ LET total_width == GridExtent(cols', qr_width_cm, cs)
                           total_height == GridExtent(rows', qr_height_cm, rs)
                       IN  IF total_width > dw \/ total_height > dh
                           THEN /\ error' = "Overflow"
                                /\ pc' = "exit"
                                /\ UNCHANGED <<qrs_per_row, qrs_per_col,
                                               qrs_to_place_on_page>>
                           ELSE /\ error' = "none"
                                /\ pc' = "while"
                                /\ qrs_per_row' = cols'
                                /\ qrs_per_col' = rows'
                                /\ qrs_to_place_on_page' = typed
    /\ UNCHANGED <<rangeVars, pxVars, tileVars, pngVars, loopVars, outVars>>

\* lines 216-218: neither 'max' nor an integer was typed
PdfSettingsInvalid ==
    /\ pc = "pdf_settings"
    /\ \E name \in PdfPages, rs \in SpacingsCm, cs \in SpacingsCm :
        /\ page_size_name' = name
        /\ row_spacing_cm' = rs
        /\ col_spacing_cm' = cs
    /\ mode' = "invalid"
    /\ error' = "InvalidChoice"
    /\ pc' = "exit"
    /\ UNCHANGED <<num_qrs, rangeVars, pxVars, tileVars, pngVars, gridVars,
                   pdfGridVars, loopVars, outVars>>

---------------------------------------------------------------------------
(* main: the PDF path, the drawing loop (lines 233-260) *)

\* the break test of lines 239 and 242
LoopBreak ==
    \/ current_qr_index >= Len(qr_images)
    \/ qrs_on_this_page >= qrs_to_place_on_page

\* lines 234-236: the test of the while loop and the start of a page
WhileTest ==
    /\ pc = "while"
    /\ IF current_qr_index < Len(qr_images)
       THEN /\ qrs_on_this_page' = 0
            /\ y_pos' = y_start - qr_height_cm
            /\ row' = 0
            /\ pc' = "for_row"
       ELSE /\ pc' = "save"
            /\ UNCHANGED <<qrs_on_this_page, y_pos, row>>
    /\ UNCHANGED <<error, current_qr_index, col, x_pos, page, rangeVars, pxVars,
                   tileVars, pngVars, gridVars, pdfInVars, pdfGridVars, outVars>>

\* lines 238-240: the head of the row loop
ForRow ==
    /\ pc = "for_row"
    /\ IF row < qrs_per_col /\ ~LoopBreak
       THEN /\ x_pos' = x_start
            /\ col' = 0
            /\ pc' = "for_col"
       ELSE /\ pc' = "after_rows"
            /\ UNCHANGED <<x_pos, col>>
    /\ UNCHANGED <<error, current_qr_index, qrs_on_this_page, row, y_pos, page,
                   rangeVars, pxVars, tileVars, pngVars, gridVars, pdfInVars,
                   pdfGridVars, outVars>>

\* lines 241-242 and 255: the head of the column loop; when it ends, the row does
ForCol ==
    /\ pc = "for_col"
    /\ IF col < qrs_per_row /\ ~LoopBreak
       THEN /\ pc' = "save_temp"
            /\ UNCHANGED <<y_pos, row>>
       ELSE /\ y_pos' = y_pos - (qr_height_cm + row_spacing_cm)
            /\ row' = row + 1
            /\ pc' = "for_row"
    /\ UNCHANGED <<error, current_qr_index, qrs_on_this_page, col, x_pos, page,
                   rangeVars, pxVars, tileVars, pngVars, gridVars, pdfInVars,
                   pdfGridVars, outVars>>

\* lines 244-245: the tile is saved as temp_qr_<current_qr_index>.png
SaveTemp ==
    /\ pc = "save_temp"
    /\ temp_files' = temp_files \cup {current_qr_index}
    /\ pc' = "draw_image"
    /\ UNCHANGED <<error, drawn, rangeVars, pxVars, tileVars, pngVars, gridVars,
                   pdfInVars, pdfGridVars, loopVars>>

\* line 245 raises: the file may have been created
SaveTempFails ==
    /\ pc = "save_temp"
    /\ \E created \in BOOLEAN :
        temp_files' = IF created THEN temp_files \cup {current_qr_index}
                      ELSE temp_files
    /\ pc' = "crashed"
    /\ UNCHANGED <<error, drawn, rangeVars, pxVars, tileVars, pngVars, gridVars,
                   pdfInVars, pdfGridVars, loopVars>>

\* line 247
DrawImage ==
    /\ pc = "draw_image"
    /\ drawn' = Append(drawn, [index |-> current_qr_index, page |-> page,
                               row |-> row, col |-> col,
                               x |-> x_pos, y |-> y_pos])
    /\ pc' = "remove"
    /\ UNCHANGED <<error, temp_files, rangeVars, pxVars, tileVars, pngVars,
                   gridVars, pdfInVars, pdfGridVars, loopVars>>

\* line 247 raises
DrawImageFails ==
    /\ pc = "draw_image"
    /\ pc' = "crashed"
    /\ UNCHANGED <<error, rangeVars, pxVars, tileVars, pngVars, gridVars,
                   pdfInVars, pdfGridVars, loopVars, outVars>>

\* lines 249-253
RemoveTemp ==
    /\ pc = "remove"
    /\ temp_files' = temp_files \ {current_qr_index}
    /\ x_pos' = x_pos + qr_width_cm + col_spacing_cm
    /\ current_qr_index' = current_qr_index + 1
    /\ qrs_on_this_page' = qrs_on_this_page + 1
    /\ col' = col + 1
    /\ pc' = "for_col"
    /\ UNCHANGED <<error, row, y_pos, page, drawn, rangeVars, pxVars, tileVars,
                   pngVars, gridVars, pdfInVars, pdfGridVars>>

\* line 249 raises
RemoveTempFails ==
    /\ pc = "remove"
    /\ pc' = "crashed"
    /\ UNCHANGED <<error, rangeVars, pxVars, tileVars, pngVars, gridVars,
                   pdfInVars, pdfGridVars, loopVars, outVars>>

\* lines 257-258: the end of a pass of the while loop
AfterRows ==
    /\ pc = "after_rows"
    /\ page < MaxPages
    /\ page' = IF current_qr_index < Len(qr_images) THEN page + 1 ELSE page
    /\ pc' = "while"
    /\ UNCHANGED <<error, current_qr_index, qrs_on_this_page, row, col, x_pos,
                   y_pos, rangeVars, pxVars, tileVars, pngVars, gridVars,
                   pdfInVars, pdfGridVars, outVars>>

\* line 260
SaveDocument ==
    /\ pc = "save"
    /\ pc' = "done"
    /\ UNCHANGED <<error, rangeVars, pxVars, tileVars, pngVars, gridVars,
                   pdfInVars, pdfGridVars, loopVars, outVars>>

\* line 260 raises
SaveDocumentFails ==
    /\ pc = "save"
    /\ pc' = "crashed"
    /\ UNCHANGED <<error, rangeVars, pxVars, tileVars, pngVars, gridVars,
                   pdfInVars, pdfGridVars, loopVars, outVars>>

NextPdf ==
    \/ PdfBadSpacing \/ PdfSettingsMax \/ PdfSettingsFixed \/ PdfSettingsInvalid
    \/ WhileTest \/ ForRow \/ ForCol
    \/ SaveTemp \/ SaveTempFails \/ DrawImage \/ DrawImageFails
    \/ RemoveTemp \/ RemoveTempFails
    \/ AfterRows \/ SaveDocument \/ SaveDocumentFails

SpecPdf == InitPdf /\ [][NextPdf]_vars

\* the run is in or past the drawing loop
Drawing ==
    pc \in {"while", "for_row", "for_col", "save_temp", "draw_image", "remove",
            "after_rows", "save", "done", "crashed"}

\* the drawImage calls follow the tiles in input order, page by page and
\* row-major, C tiles to a page; a page is ended for a next one only when it
\* holds C tiles; a document that is saved holds all N tiles
RowMajorPagination ==
    LET N == Len(qr_images)
        C == qrs_to_place_on_page
    IN  /\ \A k \in 0..(Len(drawn) - 1) :
            /\ drawn[k + 1].index = k
            /\ drawn[k + 1].page = k \div C
            /\ drawn[k + 1].row = (k % C) \div qrs_per_row
            /\ drawn[k + 1].col = (k % C) % qrs_per_row
        /\ Len(drawn) <= N
        /\ (pc = "after_rows" /\ current_qr_index < N) => qrs_on_this_page = C
        /\ pc = "done" => Len(drawn) = N

\* C1 as stated: in the PDF path, for every run with a per-page capacity
\* C >= 1, the k-th tile drawn is tile k, on page floor(k/C), in row
\* floor((k mod C)/cols) and column (k mod C) mod cols; every tile is drawn
\* once, and a new page is started only when the page holds C tiles and tiles
\* remain.
C1_RowMajorPagination ==
    (Drawing /\ qrs_to_place_on_page >= 1) => RowMajorPagination

\* C1 on the grids of at least one row and one column (what the layout step
\* yields whenever no spacing is negative): the same statement holds.
C1_OnPositiveGrid ==
    (Drawing /\ qrs_per_row >= 1 /\ qrs_per_col >= 1) => RowMajorPagination

\* five tiles, two to a page: the fifth is alone on the third page
C1_OnPositiveGridWitness ==
    /\ pc = "done"
    /\ qrs_per_row >= 1 /\ qrs_per_col >= 1
    /\ Len(qr_images) = 5 /\ qrs_to_place_on_page = 2
    /\ drawn[5].page = 2 /\ drawn[5].row = 0 /\ drawn[5].col = 0

\* every tile drawn lies inside the drawable area
DrawnInsideDrawable ==
    \A k \in 1..Len(drawn) :
        /\ margin_cm <= drawn[k].x
        /\ drawn[k].x + qr_width_cm <= page_width_cm - margin_cm
        /\ margin_cm <= drawn[k].y
        /\ drawn[k].y + qr_height_cm <= page_height_cm - margin_cm

\* C2 as stated: in the PDF path, in every run that passed the layout check,
\* max-fit or fixed-count, the rectangle of every tile drawn lies inside the
\* drawable area, the page less a margin of 1 cm on every side.
C2_TilesInsideDrawable == Drawing => DrawnInsideDrawable

\* C2 on the runs whose spacings are not negative: the same statement holds.
C2_NonNegativeSpacing ==
    (Drawing /\ row_spacing_cm >= 0 /\ col_spacing_cm >= 0) => DrawnInsideDrawable

\* a full 2 x 2 page was drawn with a gap of 0.5 cm
C2_NonNegativeSpacingWitness ==
    /\ pc = "done" /\ Len(drawn) >= 4
    /\ qrs_per_row = 2 /\ qrs_per_col >= 2
    /\ row_spacing_cm = 50 /\ col_spacing_cm = 50

\* c is the largest integer with c*size + (c-1)*gap <= drawable
LargestFit(c, size, gap, drawable) ==
    /\ c \in (1 - MaxCount)..(MaxCount - 1)
    /\ (c * size) + ((c - 1) * gap) <= drawable
    /\ \A c2 \in (-MaxCount)..MaxCount :
        (c2 * size) + ((c2 - 1) * gap) <= drawable => c2 <= c

\* C3: in max-fit mode, once both tile+spacing sums are found positive, the
\* column count is the largest c with c*w + (c-1)*gx <= W, the row count the
\* largest r with r*h + (r-1)*gy <= H; the run is rejected as too large exactly
\* when c or r is zero, and otherwise the per-page capacity is c*r.
C3_MaxFit ==
    (mode = "max" /\ pc # "pdf_settings"
        /\ error \notin {"NonPositiveEff", "InvalidSpacing"}) =>
        /\ LargestFit(qrs_per_row, qr_width_cm, col_spacing_cm, drawable_width_cm)
        /\ LargestFit(qrs_per_col, qr_height_cm, row_spacing_cm, drawable_height_cm)
        /\ error \in {"none", "TooLarge"}
        /\ error = "TooLarge" <=> (qrs_per_row = 0 \/ qrs_per_col = 0)
        /\ error = "TooLarge" => (pc = "exit" /\ drawn = <<>>)
        /\ error = "none" => qrs_to_place_on_page = qrs_per_row * qrs_per_col

\* 5 cm tiles with 0.5 cm gaps on A4: 3 columns and 5 rows
C3_Witness ==
    /\ mode = "max" /\ pc = "while" /\ page_size_name = "A4"
    /\ qr_width_cm = 500 /\ qr_height_cm = 500
    /\ row_spacing_cm = 50 /\ col_spacing_cm = 50
    /\ qrs_per_row = 3 /\ qrs_per_col = 5 /\ qrs_to_place_on_page = 15

\* a tile too wide for the page is rejected
C3_WitnessTooLarge ==
    /\ mode = "max" /\ pc = "exit" /\ error = "TooLarge" /\ qrs_per_row = 0

\* C4: in fixed-count mode with a count n >= 1, rows = floor(sqrt(n)) and
\* columns = ceil(n/rows); the run ends with the layout-overflow error, nothing
\* placed, if and only if columns*w + (columns-1)*gx > drawable width or
\* rows*h + (rows-1)*gy > drawable height; otherwise the grid is columns x rows
\* and the per-page capacity is n.
C4_FixedCount ==
    (mode = "fixed" /\ num_qrs >= 1 /\ pc # "pdf_settings"
        /\ error # "InvalidSpacing") =>
        /\ rows >= 1
        /\ rows * rows <= num_qrs
        /\ (rows + 1) * (rows + 1) > num_qrs
        /\ cols * rows >= num_qrs
        /\ (cols - 1) * rows < num_qrs
        /\ error \in {"none", "Overflow"}
        /\ error = "Overflow" <=>
            \/ (cols * qr_width_cm) + ((cols - 1) * col_spacing_cm)
                    > drawable_width_cm
            \/ (rows * qr_height_cm) + ((rows - 1) * row_spacing_cm)
                    > drawable_height_cm
        /\ error = "Overflow" => (pc = "exit" /\ drawn = <<>>)
        /\ error = "none" =>
            /\ qrs_per_row = cols
            /\ qrs_per_col = rows
            /\ qrs_to_place_on_page = num_qrs

\* a 2 x 2 grid of 9 cm tiles does not fit the width of A5
C4_WitnessOverflow ==
    /\ mode = "fixed" /\ pc = "exit" /\ error = "Overflow"
    /\ num_qrs = 4 /\ rows = 2 /\ cols = 2
    /\ page_size_name = "A5" /\ qr_width_cm = 900 /\ col_spacing_cm = 0

\* three to a page is a grid of one row and three columns, which fits A4
C4_Witness ==
    /\ mode = "fixed" /\ Drawing /\ error = "none"
    /\ num_qrs = 3 /\ rows = 1 /\ cols = 3 /\ qrs_to_place_on_page = 3
    /\ Len(drawn) >= 3

\* C5 as stated: in the PDF path, when the run has ended, normally or because
\* a step failed, no temp_qr_<i>.png written by the run still exists.
C5_NoTempFileLeft ==
    pc \in {"done", "crashed", "exit"} => temp_files = {}

\* C6 as stated: in the PDF path, a run whose row or column spacing is
\* negative is rejected by the validation: it ends with an error and draws no
\* tile, in max-fit and in fixed-count mode.
C6_NegativeSpacingRejected ==
    (mode \in {"max", "fixed"} /\ pc # "pdf_settings"
        /\ (row_spacing_cm < 0 \/ col_spacing_cm < 0)) =>
        /\ pc = "exit"
        /\ error # "none"
        /\ drawn = <<>>

\* C10 as stated: for every input the layout checks accept, negative spacings
\* included, each pass of the page loop draws at least one tile (so that the
\* loop ends after at most N pages).
C10_EachPassDrawsATile ==
    pc = "after_rows" => qrs_on_this_page >= 1

===========================================================================
